---- MODULE Spec2Model ----
(***************************************************************************)
(* Model of the subscription ledger of src/bot.py: SubscriptionManager     *)
(* (the in-memory store, its JSON file and the five ledger operations) and *)
(* the command handlers that reach it (/add, the member-list message,      *)
(* /list, /delete).                                                        *)
(*                                                                         *)
(* Four specifications share the operators:                                *)
(*   Spec       the ledger driven through its methods;                     *)
(*   BotSpec    the bot as it runs: the ledger reached through /add and    *)
(*              the text message that follows it;                          *)
(*   AdminSpec  /delete on the stores that the ledger's methods build;     *)
(*   SplitSpec  add_subscription on the empty store over a wide range of   *)
(*              costs and member counts (the cost split).                  *)
(*                                                                         *)
(* Conventions                                                             *)
(*  - A Python value whose type matters is a record [t |-> type, s |-> the *)
(*    text str() gives for it]: the chat id -7 is PyInt(-7), the string    *)
(*    "-7" is PyStr("-7"); Python's == on them is equality of the records. *)
(*  - Money is kept in whole cents.                                        *)
(*  - Time is the value of datetime.now() in ticks of 30 days; two calls   *)
(*    made while the clock did not advance read the same instant.          *)
(*  - Python dicts are functions; their iteration order is not modelled.   *)
(***************************************************************************)
EXTENDS Integers, Sequences, FiniteSets, TLC

VARIABLES data, file, now, user_data, last

vars == <<data, file, now, user_data, last>>

(* ------------------------------ bounds --------------------------------- *)
MaxClock == 2
MaxMembers == 2
MaxSubs == 2
MaxPayments == 2
MaxSplitCents == 40
MaxSplitMembers == 5

(* --------------------------- program constants ------------------------- *)
\* timedelta(days=30), in ticks of 30 days
PaymentPeriod == 1

(* ------------------------------ input sets ----------------------------- *)
PyInt(i) == [t |-> "int", s |-> ToString(i)]
PyStr(x) == [t |-> "str", s |-> x]
\* str(v)
str(v) == [t |-> "str", s |-> v.s]

\* The group chat of the model, and the group ids a caller of the ledger
\* passes: the chat id itself, its text, and the text of another chat's id.
ChatIds == {-7}
GroupIds == {PyInt(c) : c \in ChatIds} \cup {PyStr("-7"), PyStr("-8")}
\* The group ids under which the ledger's caller creates subscriptions
CreateGroupIds == {PyInt(-7), PyStr("-7")}
Names == {"N"}
Members == {"a", "b"}
Costs == {1000}

RECURSIVE SeqsUpTo(_, _)
SeqsUpTo(S, n) ==
    IF n = 0 THEN {<<>>}
    ELSE LET shorter == SeqsUpTo(S, n - 1)
         IN shorter \cup {Append(q, x) : q \in {p \in shorter : Len(p) = n - 1}, x \in S}

MemberLists == SeqsUpTo(Members, MaxMembers)

Range(q) == {q[i] : i \in 1..Len(q)}

(* ------------------------------ Python values -------------------------- *)
None == [t |-> "NoneType", v |-> 0]
\* datetime.isoformat() of instant tk: a str, kept by the instant it denotes
isoformat(tk) == [t |-> "str", v |-> tk]
\* str(datetime.now().timestamp()) at instant tk
timestamp(tk) == ToString(tk) \o ".0"

EmptyDict == [k \in {} |-> 0]

Put(d, k, val) == [x \in (DOMAIN d) \cup {k} |-> IF x = k THEN val ELSE d[x]]
Del(d, k) == [x \in (DOMAIN d) \ {k} |-> d[x]]

(* ------------------------------ JSON file ------------------------------ *)
NoFile == [exists |-> FALSE]

json_dump_value(v) ==
    IF v.t = "NoneType" THEN [j |-> "null", v |-> 0]
    ELSE [j |-> "string", v |-> v.v]

json_load_value(x) ==
    IF x.j = "null" THEN None ELSE [t |-> "str", v |-> x.v]

json_dump_scalar(v) ==
    [j |-> IF v.t = "int" THEN "number" ELSE "string", s |-> v.s]

json_load_scalar(x) ==
    [t |-> IF x.j = "number" THEN "int" ELSE "str", s |-> x.s]

json_dump_bool(b) == IF b THEN "true" ELSE "false"
json_load_bool(x) == x = "true"

\* json.dump of the store: numbers, strings and lists of strings are written
\* as they are, None as null, bool as true / false.
json_dump(d) ==
    [exists |-> TRUE,
     subscriptions |->
        [k \in DOMAIN d.subscriptions |->
            LET sub == d.subscriptions[k]
            IN [name |-> sub.name,
                group_id |-> json_dump_scalar(sub.group_id),
                total_cost |-> sub.total_cost,
                members |-> sub.members,
                cost_per_person |-> sub.cost_per_person,
                created_at |-> json_dump_value(sub.created_at),
                next_payment |-> json_dump_value(sub.next_payment)]],
     groups |-> d.groups,
     payments |->
        [k \in DOMAIN d.payments |->
            [paid |-> json_dump_bool(d.payments[k].paid),
             last_payment |-> json_dump_value(d.payments[k].last_payment)]]]

json_load(f) ==
    [subscriptions |->
        [k \in DOMAIN f.subscriptions |->
            LET sub == f.subscriptions[k]
            IN [name |-> sub.name,
                group_id |-> json_load_scalar(sub.group_id),
                total_cost |-> sub.total_cost,
                members |-> sub.members,
                cost_per_person |-> sub.cost_per_person,
                created_at |-> json_load_value(sub.created_at),
                next_payment |-> json_load_value(sub.next_payment)]],
     groups |-> f.groups,
     payments |->
        [k \in DOMAIN f.payments |->
            [paid |-> json_load_bool(f.payments[k].paid),
             last_payment |-> json_load_value(f.payments[k].last_payment)]]]

EmptyStore == [subscriptions |-> EmptyDict, groups |-> EmptyDict, payments |-> EmptyDict]

load_data(f) == IF f.exists THEN json_load(f) ELSE EmptyStore

save_data(d) == json_dump(d)

(* ------------------------------ the ledger ----------------------------- *)
sub_key(group_id, name, tk) == group_id.s \o "_" \o name \o "_" \o timestamp(tk)

\* The names and member ids of the model hold no "_": two pairs have the
\* same key only when they have the same sub_id and member.
payment_key(sub_id, member) == sub_id \o "_" \o member

(* The cost split: round(total_cost / len(members), 2).                    *)
(* total_cost is the double nearest to cents/100, the division is rounded  *)
(* to a double, and round() gives the cent nearest to the exact value of   *)
(* that double, the even cent on an exact tie.  Doubles are kept as their  *)
(* 53 binary digits, so that the side on which a quotient that lies        *)
(* between two cents falls is the side the float falls on.                 *)
MantissaBits == 53

\* (p / q) * 2^e with 1/2 <= p/q < 1, for p, q > 0
RECURSIVE normalise(_, _, _)
normalise(p, q, e) ==
    IF p >= q THEN normalise(p, 2 * q, e + 1)
    ELSE IF 2 * p < q THEN normalise(2 * p, q, e - 1)
    ELSE [p |-> p, q |-> q, e |-> e]

\* The first count binary digits of p/q (0 <= p < q) and the remainder left
\* (the digits are produced half by half)
RECURSIVE expand(_, _, _)
expand(p, q, count) ==
    IF count = 0 THEN [bits |-> <<>>, rem |-> p]
    ELSE IF count = 1 THEN [bits |-> <<(2 * p) \div q>>, rem |-> (2 * p) % q]
    ELSE LET front == expand(p, q, count \div 2)
             back == expand(front.rem, q, count - count \div 2)
         IN [bits |-> front.bits \o back.bits, rem |-> back.rem]

\* Long division of a digit string by n, from remainder rem
RECURSIVE divide(_, _, _)
divide(bits, n, rem) ==
    IF bits = <<>> THEN [bits |-> <<>>, rem |-> rem]
    ELSE IF Len(bits) = 1
    THEN [bits |-> <<(2 * rem + bits[1]) \div n>>, rem |-> (2 * rem + bits[1]) % n]
    ELSE LET half == Len(bits) \div 2
             front == divide(SubSeq(bits, 1, half), n, rem)
             back == divide(SubSeq(bits, half + 1, Len(bits)), n, front.rem)
         IN [bits |-> front.bits \o back.bits, rem |-> back.rem]

\* The digit string plus one unit in its last place (it holds a 0)
increment(bits) ==
    LET k == CHOOSE i \in 1..Len(bits) :
                 bits[i] = 0 /\ \A j \in (i + 1)..Len(bits) : bits[j] = 1
    IN [i \in 1..Len(bits) |-> IF i < k THEN bits[i] ELSE IF i = k THEN 1 ELSE 0]

\* Round to nearest, ties to even: x.bits followed by a remainder x.rem of q
nearest(x, q) ==
    IF 2 * x.rem > q \/ (2 * x.rem = q /\ x.bits[Len(x.bits)] = 1)
    THEN increment(x.bits) ELSE x.bits

leading_zeros(bits) ==
    Cardinality({i \in 1..Len(bits) : \A j \in 1..i : bits[j] = 0})

zeros(k) == [i \in 1..k |-> 0]

\* -1, 0 or 1 as digit string a is below, equal to or above digit string b
compare(a, b) ==
    LET differ == {i \in 1..Len(a) : a[i] # b[i]}
    IN IF differ = {} THEN 0
       ELSE LET first == CHOOSE i \in differ : \A j \in differ : i <= j
            IN IF a[first] < b[first] THEN -1 ELSE 1

\* The side of the exact quotient cents/(100 n) on which the double
\* (cents/100) / n lies: -1 below, 0 on it, 1 above  (cents > 0, n > 1)
float_side(cents, n) ==
    LET m == normalise(cents, 100, 0)
        \* total_cost = 0.x * 2^e, 53 digits
        x == nearest(expand(m.p, m.q, MantissaBits), m.q)
        z == leading_zeros(divide(x, n, 0).bits)
        \* total_cost / n = 0.y * 2^e, 53 digits after z zeros
        y == nearest(divide(x \o zeros(z), n, 0), n)
        \* cents/(100 n) = 0.v... * 2^e
        v == expand(m.p, m.q * n, Len(y))
        c == compare(y, v.bits)
    IN IF c # 0 THEN c ELSE IF v.rem = 0 THEN 0 ELSE -1

\* The split cut off at the cent instead of rounded
round2_truncated(total_cost, n) == total_cost \div n

\* round(total_cost / n, 2) in cents, for total_cost >= 0 in whole cents
round2(total_cost, n) ==
    LET q == total_cost \div n
        r == total_cost % n
    IN IF 2 * r < n THEN q
       ELSE IF 2 * r > n THEN q + 1
       ELSE LET side == float_side(total_cost, n)
            IN IF side > 0 THEN q + 1
               ELSE IF side < 0 THEN q
               ELSE IF q % 2 = 0 THEN q ELSE q + 1

RECURSIVE init_payments(_, _, _)
init_payments(payments, sub_id, members) ==
    IF members = <<>> THEN payments
    ELSE init_payments(Put(payments, payment_key(sub_id, Head(members)),
                           [paid |-> FALSE, last_payment |-> None]),
                       sub_id, Tail(members))

\* The result of a call: the store, the file, and what the caller gets.
Returned(d, f, val) == [data |-> d, file |-> f, raised |-> FALSE, ret |-> val]
Raised(d, f, exc) == [data |-> d, file |-> f, raised |-> TRUE, ret |-> exc]

add_subscription(d, f, tk, group_id, name, total_cost, members) ==
    IF Len(members) = 0 THEN Raised(d, f, "ZeroDivisionError")
    ELSE
      LET sub_id == sub_key(group_id, name, tk)
          sub == [name |-> name,
                  group_id |-> group_id,
                  total_cost |-> total_cost,
                  members |-> members,
                  cost_per_person |-> round2(total_cost, Len(members)),
                  created_at |-> isoformat(tk),
                  next_payment |-> isoformat(tk + PaymentPeriod)]
          d2 == [d EXCEPT !.subscriptions = Put(@, sub_id, sub),
                          !.payments = init_payments(@, sub_id, members)]
      IN Returned(d2, save_data(d2), sub_id)

\* Iteration over a dict: its keys, each once, as a list.
RECURSIVE items(_)
items(keys) ==
    IF keys = {} THEN <<>>
    ELSE LET k == CHOOSE x \in keys : TRUE
         IN <<k>> \o items(keys \ {k})

get_subscriptions(d, group_id) ==
    LET matching == SelectSeq(items(DOMAIN d.subscriptions),
                        LAMBDA sub_id : d.subscriptions[sub_id].group_id = str(group_id))
    IN [i \in 1..Len(matching) |->
            [id |-> matching[i], sub |-> d.subscriptions[matching[i]]]]

\* The subscriptions get_member_dues reports on: those of the group that have
\* the member in their list.
dues_subscriptions(d, group_id, member_id) ==
    SelectSeq(items(DOMAIN d.subscriptions),
              LAMBDA sub_id :
                  /\ d.subscriptions[sub_id].group_id = str(group_id)
                  /\ member_id \in Range(d.subscriptions[sub_id].members))

get_member_dues(d, group_id, member_id) ==
    LET matching == dues_subscriptions(d, group_id, member_id)
    IN [i \in 1..Len(matching) |->
            LET sub == d.subscriptions[matching[i]]
                pk == payment_key(matching[i], member_id)
            IN [subscription |-> sub.name,
                amount |-> sub.cost_per_person,
                paid |-> IF pk \in DOMAIN d.payments THEN d.payments[pk].paid ELSE FALSE,
                next_payment |-> sub.next_payment]]

\* mark_payment with the time stamp written whatever the flag
mark_payment_stamps_always(d, f, tk, sub_id, member_id, paid) ==
    LET pk == payment_key(sub_id, member_id)
    IN IF pk \in DOMAIN d.payments
       THEN LET d2 == [d EXCEPT !.payments[pk].paid = paid,
                                !.payments[pk].last_payment = isoformat(tk)]
            IN Returned(d2, save_data(d2), TRUE)
       ELSE Returned(d, f, FALSE)

\* mark_payment that creates the record it does not find
mark_payment_upsert(d, f, tk, sub_id, member_id, paid) ==
    LET pk == payment_key(sub_id, member_id)
        d2 == [d EXCEPT !.payments =
                  Put(@, pk, [paid |-> paid,
                              last_payment |-> IF paid THEN isoformat(tk)
                                               ELSE IF pk \in DOMAIN @ THEN @[pk].last_payment
                                               ELSE None])]
    IN Returned(d2, save_data(d2), pk \in DOMAIN d.payments)

\* mark_payment that returns without save_data()
mark_payment_unsaved(d, f, tk, sub_id, member_id, paid) ==
    LET pk == payment_key(sub_id, member_id)
    IN IF pk \in DOMAIN d.payments
       THEN LET d2 == [d EXCEPT !.payments[pk].paid = paid,
                                !.payments[pk].last_payment =
                                    IF paid THEN isoformat(tk) ELSE @]
            IN Returned(d2, f, TRUE)
       ELSE Returned(d, f, FALSE)

mark_payment(d, f, tk, sub_id, member_id, paid) ==
    LET pk == payment_key(sub_id, member_id)
    IN IF pk \in DOMAIN d.payments
       THEN LET d2 == [d EXCEPT !.payments[pk].paid = paid,
                                !.payments[pk].last_payment =
                                    IF paid THEN isoformat(tk) ELSE @]
            IN Returned(d2, save_data(d2), TRUE)
       ELSE Returned(d, f, FALSE)

RECURSIVE delete_payments(_, _, _)
delete_payments(payments, sub_id, members) ==
    IF members = <<>> THEN payments
    ELSE delete_payments(Del(payments, payment_key(sub_id, Head(members))),
                         sub_id, Tail(members))

\* delete_subscription without the check of the group
delete_subscription_any_group(d, f, sub_id, group_id) ==
    IF sub_id \in DOMAIN d.subscriptions
    THEN LET sub == d.subscriptions[sub_id]
             d2 == [d EXCEPT !.payments = delete_payments(@, sub_id, sub.members),
                             !.subscriptions = Del(@, sub_id)]
         IN Returned(d2, save_data(d2), TRUE)
    ELSE Returned(d, f, FALSE)

delete_subscription(d, f, sub_id, group_id) ==
    IF /\ sub_id \in DOMAIN d.subscriptions
       /\ d.subscriptions[sub_id].group_id = str(group_id)
    THEN LET sub == d.subscriptions[sub_id]
             d2 == [d EXCEPT !.payments = delete_payments(@, sub_id, sub.members),
                             !.subscriptions = Del(@, sub_id)]
         IN Returned(d2, save_data(d2), TRUE)
    ELSE Returned(d, f, FALSE)

(* --------------------------- command handlers -------------------------- *)
GroupChat == [type |-> "group", id |-> -7]
PrivateChat == [type |-> "private", id |-> 5]
Chats == {GroupChat, PrivateChat}

\* float(token) in cents; it raises ValueError when the token is not a number
float(token) ==
    CASE token = "10.00" -> [raised |-> FALSE, value |-> 1000]
      [] token = "0" -> [raised |-> FALSE, value |-> 0]
      [] OTHER -> [raised |-> TRUE, value |-> 0]

\* The /add updates of the model: the chat and context.args
AddUpdates ==
    {<<GroupChat, <<"N">> >>, <<GroupChat, <<"N", "abc">> >>,
     <<GroupChat, <<"N", "10.00">> >>, <<GroupChat, <<"N", "0">> >>,
     <<PrivateChat, <<"N", "10.00">> >>}

\* A text message: member tokens separated by white space, or white space only
RECURSIVE join(_)
join(words) ==
    IF Len(words) <= 1 THEN words
    ELSE <<Head(words), " ">> \o join(Tail(words))

Texts == {join(ms) : ms \in MemberLists \ {<<>>}} \cup {<<" ">>}

\* text.split()
split(text) == SelectSeq(text, LAMBDA w : w # " ")

NoUserData == EmptyDict

\* /add: the reply sent and the user_data left behind
cmd_add_subscription(ud, chat, args) ==
    IF chat.type \notin {"group", "supergroup"}
    THEN [user_data |-> ud, reply |-> "only works in groups"]
    ELSE IF Len(args) < 2
    THEN [user_data |-> ud, reply |-> "usage"]
    ELSE IF float(args[2]).raised
    THEN [user_data |-> ud, reply |-> "invalid cost"]
    ELSE [user_data |-> Put(ud, "pending_subscription",
                            [name |-> args[1],
                             cost |-> float(args[2]).value,
                             group_id |-> PyInt(chat.id)]),
          reply |-> "creating subscription"]

\* handle_message without the del of the pending entry
handle_message_keeps_pending(d, f, ud, tk, text) ==
    IF "pending_subscription" \in DOMAIN ud
    THEN LET pending == ud["pending_subscription"]
             member_ids == split(text)
         IN IF member_ids # <<>>
            THEN LET r == add_subscription(d, f, tk, pending.group_id, pending.name,
                                           pending.cost, member_ids)
                 IN [data |-> r.data, file |-> r.file,
                     user_data |-> ud,
                     reply |-> "created", sub_id |-> r.ret]
            ELSE [data |-> d, file |-> f, user_data |-> ud,
                  reply |-> "no valid member ids", sub_id |-> ""]
    ELSE [data |-> d, file |-> f, user_data |-> ud, reply |-> "", sub_id |-> ""]

\* A plain text message
handle_message(d, f, ud, tk, text) ==
    IF "pending_subscription" \in DOMAIN ud
    THEN LET pending == ud["pending_subscription"]
             member_ids == split(text)
         IN IF member_ids # <<>>
            THEN LET r == add_subscription(d, f, tk, pending.group_id, pending.name,
                                           pending.cost, member_ids)
                 IN [data |-> r.data, file |-> r.file,
                     user_data |-> Del(ud, "pending_subscription"),
                     reply |-> "created", sub_id |-> r.ret]
            ELSE [data |-> d, file |-> f, user_data |-> ud,
                  reply |-> "no valid member ids", sub_id |-> ""]
    ELSE [data |-> d, file |-> f, user_data |-> ud, reply |-> "", sub_id |-> ""]

\* /list: the subscriptions shown
list_command(d, chat) ==
    IF chat.type = "private"
    THEN [reply |-> "use in group", shown |-> <<>>]
    ELSE LET subscriptions == get_subscriptions(d, PyInt(chat.id))
         IN IF subscriptions = <<>>
            THEN [reply |-> "no subscriptions yet", shown |-> <<>>]
            ELSE [reply |-> "quick list", shown |-> subscriptions]

\* str.lower() on the names of the model
lower(x) == IF x = "N" THEN "n" ELSE x

\* What `await chat.get_member(user.id)` gives: a ChatMember with a status,
\* or an exception of the request.
Statuses == {"creator", "administrator", "member", "left"}
Lookups == [raised : {FALSE}, status : Statuses] \cup {[raised |-> TRUE, status |-> "TelegramError"]}

\* The /delete updates of the model: the chat and context.args
DeleteUpdates ==
    {<<GroupChat, <<>> >>, <<GroupChat, <<"N">> >>, <<GroupChat, <<"n">> >>,
     <<GroupChat, <<"X">> >>, <<PrivateChat, <<"N">> >>}

\* The subscriptions of the list with the name, whatever the case, in the
\* order of the list; the handler takes the first.
matching_subs(subscriptions, sub_name) ==
    SelectSeq(subscriptions, LAMBDA sub : lower(sub.sub.name) = lower(sub_name))

\* /delete: the exception of the lookup is logged and the handler goes on
delete_command(d, f, chat, lookup, args) ==
    IF chat.type = "private"
    THEN [data |-> d, file |-> f, reply |-> "only works in groups"]
    ELSE IF ~lookup.raised /\ lookup.status \notin {"creator", "administrator"}
    THEN [data |-> d, file |-> f, reply |-> "only group admins"]
    ELSE IF Len(args) < 1
    THEN [data |-> d, file |-> f, reply |-> "usage"]
    ELSE LET matching == matching_subs(get_subscriptions(d, PyInt(chat.id)), args[1])
         IN IF matching = <<>>
            THEN [data |-> d, file |-> f, reply |-> "not found"]
            ELSE LET r == delete_subscription(d, f, matching[1].id, PyInt(chat.id))
                 IN [data |-> r.data, file |-> r.file,
                     reply |-> IF r.ret THEN "deleted" ELSE "error deleting"]

(* ------------------------------- the machine --------------------------- *)
\* data, file: SubscriptionManager.data and the content of DATA_FILE
\* now: datetime.now();  user_data: context.user_data of the user
\* last: the call or update handled last, with what it returned
SubIds == {sub_key(g, n, tk) : g \in GroupIds, n \in Names, tk \in 0..MaxClock}

Call(op, r) == [op |-> op, raised |-> r.raised, ret |-> r.ret]

\* The model keeps the store small: a creation is taken only when the store
\* it leaves has at most MaxSubs subscriptions and MaxPayments payment records.
Small(d) ==
    /\ Cardinality(DOMAIN d.subscriptions) <= MaxSubs
    /\ Cardinality(DOMAIN d.payments) <= MaxPayments

Init ==
    /\ file = NoFile
    /\ data = load_data(file)
    /\ now = 0
    /\ user_data = NoUserData
    /\ last = [op |-> "start", raised |-> FALSE, ret |-> ""]

CreateSubscription ==
    \E group_id \in CreateGroupIds, name \in Names, total_cost \in Costs, members \in MemberLists :
        LET r == add_subscription(data, file, now, group_id, name, total_cost, members)
        IN /\ Small(r.data)
           /\ data' = r.data
           /\ file' = r.file
           /\ last' = Call("add_subscription", r)
           /\ UNCHANGED <<now, user_data>>

MarkPayment ==
    \E sub_id \in SubIds, member_id \in Members, paid \in BOOLEAN :
        LET r == mark_payment(data, file, now, sub_id, member_id, paid)
        IN /\ data' = r.data
           /\ file' = r.file
           /\ last' = Call("mark_payment", r)
           /\ UNCHANGED <<now, user_data>>

DeleteSubscription ==
    \E sub_id \in SubIds, group_id \in GroupIds :
        LET r == delete_subscription(data, file, sub_id, group_id)
        IN /\ data' = r.data
           /\ file' = r.file
           /\ last' = Call("delete_subscription", r)
           /\ UNCHANGED <<now, user_data>>

AddCommand ==
    \E u \in AddUpdates :
        LET h == cmd_add_subscription(user_data, u[1], u[2])
        IN /\ user_data' = h.user_data
           /\ last' = [op |-> "/add", raised |-> FALSE, ret |-> h.reply]
           /\ UNCHANGED <<data, file, now>>

TextMessage ==
    \E text \in Texts :
        LET h == handle_message(data, file, user_data, now, text)
        IN /\ Small(h.data)
           /\ data' = h.data
           /\ file' = h.file
           /\ user_data' = h.user_data
           /\ last' = [op |-> "text", raised |-> FALSE, ret |-> h.reply]
           /\ UNCHANGED now

\* The clock advances between two operations.
Tick ==
    /\ now < MaxClock
    /\ now' = now + 1
    /\ last' = [op |-> "tick", raised |-> FALSE, ret |-> ""]
    /\ UNCHANGED <<data, file, user_data>>

\* The process is started again: SubscriptionManager() loads the file.
Restart ==
    /\ data' = load_data(file)
    /\ user_data' = NoUserData
    /\ last' = [op |-> "restart", raised |-> FALSE, ret |-> ""]
    /\ UNCHANGED <<file, now>>

Next ==
    \/ CreateSubscription
    \/ MarkPayment
    \/ DeleteSubscription
    \/ Tick
    \/ Restart

Spec == Init /\ [][Next]_vars

BotNext ==
    \/ AddCommand
    \/ TextMessage
    \/ Tick
    \/ Restart

BotSpec == Init /\ [][BotNext]_vars

DeleteCommand ==
    \E u \in DeleteUpdates, lookup \in Lookups :
        LET h == delete_command(data, file, u[1], lookup, u[2])
        IN /\ data' = h.data
           /\ file' = h.file
           /\ last' = [op |-> "/delete", raised |-> FALSE, ret |-> h.reply,
                        lookup |-> lookup]
           /\ UNCHANGED <<now, user_data>>

\* /delete on the stores that the ledger's calls build
AdminNext ==
    \/ CreateSubscription
    \/ DeleteCommand
    \/ Tick
    \/ Restart

AdminSpec == Init /\ [][AdminNext]_vars

\* The first subscription of an empty store, over a wide range of costs
\* (whole cents) and member counts.
SplitMembers == <<"a", "b", "c", "d", "e", "f", "g", "h">>

FirstSubscription ==
    \E total_cost \in 1..MaxSplitCents, n \in 0..MaxSplitMembers :
        LET r == add_subscription(data, file, now, PyStr("-7"), "N", total_cost,
                                  SubSeq(SplitMembers, 1, n))
        IN /\ data = EmptyStore
           /\ data' = r.data
           /\ file' = r.file
           /\ last' = Call("add_subscription", r)
           /\ UNCHANGED <<now, user_data>>

SplitNext == FirstSubscription

SplitSpec == Init /\ [][SplitNext]_vars

(* ------------------------------- the claims ---------------------------- *)
Abs(x) == IF x < 0 THEN -x ELSE x

Subs == data.subscriptions
Pays == data.payments

\* C1: every payment record belongs to an existing subscription and to a
\* member of its list, and every member of every subscription has its
\* payment record (a dict holds one record per key).
C1_PaymentsMatchMembers ==
    /\ \A pk \in DOMAIN Pays :
          \E sid \in DOMAIN Subs :
              \E m \in Range(Subs[sid].members) : pk = payment_key(sid, m)
    /\ \A sid \in DOMAIN Subs :
          \A m \in Range(Subs[sid].members) : payment_key(sid, m) \in DOMAIN Pays

\* C2: the subscription that the member-list message creates under the
\* group id stored by /add is returned exactly once by get_subscriptions
\* for that same group id, the chat id that /list passes.
C2_CreatedIsListedOnce ==
    [][(last'.op = "text" /\ last'.ret = "created") =>
          LET pending == user_data["pending_subscription"]
              sub_id == sub_key(pending.group_id, pending.name, now)
              listed == get_subscriptions(data', pending.group_id)
          IN /\ Cardinality({i \in 1..Len(listed) : listed[i].id = sub_id}) = 1
             /\ list_command(data', GroupChat).shown = listed]_vars

\* C3: a delete_subscription that returns True leaves no payment record
\* scoped to the deleted key, and get_member_dues reports on it for no
\* group and no member.
C3_DeleteLeavesNoRecord ==
    [][(last'.op = "delete_subscription" /\ last'.ret = TRUE) =>
          \A sid \in (DOMAIN Subs) \ (DOMAIN data'.subscriptions) :
              /\ \A m \in Members : payment_key(sid, m) \notin DOMAIN data'.payments
              /\ \A g \in GroupIds, m \in Members :
                    sid \notin Range(dues_subscriptions(data', g, m))]_vars

\* What a successful mark_payment leaves alone: the call returned True, and
\* every payment record but pk, every subscription and the groups table are
\* as they were.
C4_Frame(r, pk) ==
    /\ ~r.raised
    /\ r.ret = TRUE
    /\ DOMAIN r.data.payments = DOMAIN Pays
    /\ \A k \in (DOMAIN Pays) \ {pk} : r.data.payments[k] = Pays[k]
    /\ r.data.subscriptions = Subs
    /\ r.data.groups = data.groups

\* C4: in every reachable store and for every pair that has a payment
\* record, mark_payment with paid=True returns True, sets the flag and a
\* non-null last payment, and with paid=False returns True, clears the flag
\* and keeps the last payment; either way every other payment record, every
\* subscription and the groups table stay as they were.
C4_MarkPaymentSetsOneRecord ==
    \A sub_id \in SubIds, member_id \in Members :
        LET pk == payment_key(sub_id, member_id)
            rt == mark_payment(data, file, now, sub_id, member_id, TRUE)
            rf == mark_payment(data, file, now, sub_id, member_id, FALSE)
        IN pk \in DOMAIN Pays =>
              /\ C4_Frame(rt, pk)
              /\ rt.data.payments[pk].paid = TRUE
              /\ rt.data.payments[pk].last_payment # None
              /\ C4_Frame(rf, pk)
              /\ rf.data.payments[pk].paid = FALSE
              /\ rf.data.payments[pk].last_payment = Pays[pk].last_payment

\* A member was marked paid while another member of the same subscription
\* stays unpaid, and a record that was paid earlier was then marked unpaid.
C4_Witness ==
    /\ last.op = "mark_payment"
    /\ last.ret = TRUE
    /\ \E sid \in DOMAIN Subs :
          /\ payment_key(sid, "a") \in DOMAIN Pays
          /\ payment_key(sid, "b") \in DOMAIN Pays
          /\ Pays[payment_key(sid, "a")].paid
          /\ ~Pays[payment_key(sid, "b")].paid
          /\ Pays[payment_key(sid, "b")].last_payment # None

\* C5: in every reachable store and for every pair without a payment
\* record, mark_payment returns False and the tables and the file it leaves
\* are the ones it found; the pair still has no record.
C5_MarkPaymentMissingPair ==
    \A sub_id \in SubIds, member_id \in Members, paid \in BOOLEAN :
        LET pk == payment_key(sub_id, member_id)
            r == mark_payment(data, file, now, sub_id, member_id, paid)
        IN pk \notin DOMAIN Pays =>
              /\ ~r.raised
              /\ r.ret = FALSE
              /\ r.data = data
              /\ r.file = file
              /\ pk \notin DOMAIN r.data.payments

\* mark_payment returned False on a store that holds a subscription and a
\* payment record.
C5_Witness ==
    /\ last.op = "mark_payment"
    /\ last.ret = FALSE
    /\ Subs # EmptyDict
    /\ Pays # EmptyDict
    /\ file.exists
    /\ \E sid \in DOMAIN Subs : \E m \in Members : payment_key(sid, m) \notin DOMAIN Pays

\* C6: in every reachable store, delete_subscription of a key that is not
\* there, or under a group id that names another group than the one stored,
\* returns False and leaves the tables and the file as they were.
C6_DeleteRefused ==
    \A sub_id \in SubIds, group_id \in GroupIds :
        LET r == delete_subscription(data, file, sub_id, group_id)
        IN (sub_id \notin DOMAIN Subs \/ Subs[sub_id].group_id.s # group_id.s) =>
              /\ ~r.raised
              /\ r.ret = FALSE
              /\ r.data = data
              /\ r.file = file

\* delete_subscription returned False on a store that holds a subscription
\* of the group "-7" with its payment record.
C6_Witness ==
    /\ last.op = "delete_subscription"
    /\ last.ret = FALSE
    /\ \E sid \in DOMAIN Subs :
          /\ Subs[sid].group_id = PyStr("-7")
          /\ \E m \in Members : payment_key(sid, m) \in DOMAIN Pays

\* C7: no call crashes, and no subscription exists whose total cost is not
\* positive or whose member list is empty.
C7_InvalidCreationRejected ==
    /\ ~last.raised
    /\ \A sid \in DOMAIN Subs :
          /\ Subs[sid].total_cost > 0
          /\ Subs[sid].members # <<>>

\* C8 (as stated): n times the stored per-member cost is within one cent of
\* the total cost.
C8_SplitWithinOneCent ==
    \A sid \in DOMAIN Subs :
        LET sub == Subs[sid]
        IN Abs(Len(sub.members) * sub.cost_per_person - sub.total_cost) <= 1

\* C8 (amended): the stored per-member cost is a cent nearest to
\* total/n, and n times it differs from the total by at most n/2 cents;
\* by at most one cent when n <= 3.
C8_SplitWithinHalfCentPerMember ==
    \A sid \in DOMAIN Subs :
        LET sub == Subs[sid]
            n == Len(sub.members)
            off(c) == Abs(n * c - sub.total_cost)
        IN /\ n > 0
           /\ off(sub.cost_per_person) <= off(sub.cost_per_person - 1)
           /\ off(sub.cost_per_person) <= off(sub.cost_per_person + 1)
           /\ 2 * off(sub.cost_per_person) <= n
           /\ (n <= 3 => off(sub.cost_per_person) <= 1)

\* A split among four or more members that is off by more than one cent.
C8_Witness ==
    \E sid \in DOMAIN Subs :
        /\ Len(Subs[sid].members) >= 4
        /\ Subs[sid].total_cost > 0
        /\ Abs(Len(Subs[sid].members) * Subs[sid].cost_per_person - Subs[sid].total_cost) > 1

\* C9: in every reachable state the store that load_data reads from the
\* file is the store in memory, and a file that exists is the dump of the
\* store in memory.
C9_FileHoldsStore ==
    /\ load_data(file) = data
    /\ file.exists => file = save_data(data)

\* The process was started again on a file that holds a subscription, a paid
\* and an unpaid payment record.
C9_Witness ==
    /\ last.op = "restart"
    /\ file.exists
    /\ Subs # EmptyDict
    /\ \E pk \in DOMAIN Pays : Pays[pk].paid
    /\ \E pk \in DOMAIN Pays : Pays[pk].last_payment = None

\* C10: a payment record marked paid by the next-payment date of its
\* subscription is unpaid once that date has passed.
C10_PaidResetsAfterDue ==
    \A sid \in DOMAIN Subs :
        \A m \in Range(Subs[sid].members) :
            LET pk == payment_key(sid, m)
            IN (/\ pk \in DOMAIN Pays
                /\ Pays[pk].paid
                /\ Pays[pk].last_payment.v <= Subs[sid].next_payment.v)
               => now <= Subs[sid].next_payment.v

C12_Pending == "pending_subscription" \in DOMAIN user_data

\* The text has a member token: something in it is not white space.
C12_HasToken(text) == \E i \in 1..Len(text) : text[i] # " "

\* From store d to store d2 the one subscription of the pending entry was
\* written, under the key of the time tk, and every other subscription is as
\* it was.
C12_CreatedOne(d, d2, pending, tk) ==
    LET k == sub_key(pending.group_id, pending.name, tk)
    IN /\ DOMAIN d2.subscriptions = (DOMAIN d.subscriptions) \cup {k}
       /\ d2.subscriptions[k].name = pending.name
       /\ d2.subscriptions[k].total_cost = pending.cost
       /\ d2.subscriptions[k].group_id = pending.group_id
       /\ \A x \in (DOMAIN d.subscriptions) \ {k} :
              d2.subscriptions[x] = d.subscriptions[x]

\* What an /add does to the pending entry: it leaves user_data as it is, or
\* it sets the entry to its own name, cost and chat.
C12_AddSetsPending ==
    \A u \in AddUpdates :
        LET h == cmd_add_subscription(user_data, u[1], u[2])
        IN \/ h.user_data = user_data
           \/ h.user_data = Put(user_data, "pending_subscription",
                                [name |-> u[2][1],
                                 cost |-> float(u[2][2]).value,
                                 group_id |-> PyInt(u[1].id)])

\* What a text message does, for every text: with a pending entry and a
\* member token it writes the one subscription of the entry and clears the
\* entry; otherwise it leaves the store, the file and user_data as they are.
C12_TextCreatesFromPending ==
    \A text \in Texts :
        LET h == handle_message(data, file, user_data, now, text)
        IN IF C12_Pending /\ C12_HasToken(text)
           THEN /\ C12_CreatedOne(data, h.data, user_data["pending_subscription"], now)
                /\ "pending_subscription" \notin DOMAIN h.user_data
           ELSE /\ h.data = data
                /\ h.file = file
                /\ h.user_data = user_data

====
